---------------------------- MODULE Spec2Model ----------------------------
(***************************************************************************)
(* A model of simanneal's Annealer (src/simanneal/anneal.py): the anneal   *)
(* driver and the auto parameter estimator, run against a caller-supplied  *)
(* problem (move / energy / revert hooks).                                 *)
(*                                                                         *)
(* Python objects that hold a state live in a heap of cells, so that       *)
(* copy_state is an allocation and move() an in-place mutation.  Floats    *)
(* (temperatures, probabilities, random draws) are fixed-point numbers     *)
(* with Scale units to 1.0; energies are integers.                         *)
(***************************************************************************)
EXTENDS Integers, Sequences, FiniteSets, TLC

(***************************************************************************)
(* Bounds of the model.                                                    *)
(***************************************************************************)
MaxSteps == 2
MaxUpdates == 2
MaxVal == 1
MaxAutoSteps == 2
MaxProbes == 4
MaxSeedMoves == 2
Scale == 1000

(***************************************************************************)
(* Program constants.                                                      *)
(***************************************************************************)
None == 0
MantissaBits == 53

Addr == 1 .. 4
Vals == 0 .. MaxVal
Deltas == {-1, 0, 1}
Strategies == {"deepcopy", "slice", "method", "pickle"}
OutputFiles == {"", "trace.csv"}
\* Temperatures are in Scale units.
TmaxChoices == {0, 4 * Scale}
TminChoices == {-Scale, 0, Scale}

AnnealerParams(steps, tmax, tmin, copy_strategy, updates, output_file) ==
    [steps |-> steps, tmax |-> tmax, tmin |-> tmin,
     copy_strategy |-> copy_strategy, updates |-> updates,
     output_file |-> output_file]

\* Parameter records a caller passes to anneal: every schedule length and
\* update count, every pair of temperatures with and without a trace file,
\* every copy strategy.
ParamChoices ==
    { AnnealerParams(s, 4 * Scale, Scale, "deepcopy", u, "") :
        s \in 0 .. MaxSteps, u \in 0 .. MaxUpdates }
    \cup { AnnealerParams(MaxSteps, tx, tn, "deepcopy", 1, o) :
        tx \in TmaxChoices, tn \in TminChoices, o \in OutputFiles }
    \cup { AnnealerParams(1, 4 * Scale, Scale, cs, 0, "") : cs \in Strategies }

\* Annealer.__init__: the parameters a fresh core holds.
DefaultParams ==
    AnnealerParams(50000, 25000 * Scale, (5 * Scale) \div 2, "deepcopy", 100, "")

(***************************************************************************)
(* Fixed-point arithmetic standing for the float operations of the code.   *)
(***************************************************************************)
Abs(x) == IF x < 0 THEN -x ELSE x

Sq(h) == (h * h) \div Scale

\* math.exp(-u / Scale) for u >= 0, in Scale units; underflows to 0.
RECURSIVE ExpNeg(_)
ExpNeg(u) ==
    IF u <= Scale \div 4
    THEN Scale - u + (u * u) \div (2 * Scale)
               - (u * u * u) \div (6 * Scale * Scale)
    ELSE Sq(ExpNeg(u \div 2))

\* math.exp(x / Scale), in Scale units.
Exp(x) == IF x <= 0 THEN ExpNeg(-x) ELSE (Scale * Scale) \div ExpNeg(x)

RECURSIVE AtanhSeries(_, _, _)
AtanhSeries(z, zk, k) ==
    IF zk = 0 \/ k > 41 THEN 0
    ELSE zk \div k + AtanhSeries(z, (zk * z * z) \div (Scale * Scale), k + 2)

\* math.log(a / b) for a, b > 0, in Scale units.
Log(a, b) ==
    LET hi == IF a >= b THEN a ELSE b
        lo == IF a >= b THEN b ELSE a
        z  == ((hi - lo) * Scale) \div (hi + lo)
        v  == 2 * AtanhSeries(z, z, 1)
    IN IF a >= b THEN v ELSE -v

\* math.log(tmax / tmin) raises: ZeroDivisionError for tmin = 0, ValueError
\* (math domain error) for a quotient <= 0.
LogRaises(tmax, tmin) ==
    IF tmin = 0 THEN "ZeroDivisionError"
    ELSE IF tmax * tmin <= 0 THEN "ValueError"
    ELSE "none"

(***************************************************************************)
(* updateWavelength = steps / updates is a float: the exact quotient       *)
(* rounded to MantissaBits significant bits, to nearest, ties to even.     *)
(***************************************************************************)
RECURSIVE Pow2Of(_, _)
\* The largest power of two p with d * p <= n (n >= d > 0).
Pow2Of(n, d) == IF 2 * d <= n THEN 2 * Pow2Of(n, 2 * d) ELSE 1

RECURSIVE DivBits(_, _, _, _)
\* Long division of rem / d: `bits` more quotient bits; <<last bit, remainder>>.
DivBits(rem, d, bits, lastBit) ==
    IF bits = 0 THEN <<lastBit, rem>>
    ELSE IF 2 * rem >= d THEN DivBits(2 * rem - d, d, bits - 1, 1)
    ELSE DivBits(2 * rem, d, bits - 1, 0)

\* -1, 0 or 1 as float(a / b) lies below, on or above the exact a / b (a, b > 0).
FloatDivRounding(a, b) ==
    LET n == IF a >= b THEN a ELSE a * Pow2Of(b, a) * (IF a * Pow2Of(b, a) < b THEN 2 ELSE 1)
        d == IF a >= b THEN b * Pow2Of(a, b) ELSE b
        q == DivBits(n - d, d, MantissaBits - 1, 1)
    IN IF q[2] = 0 THEN 0
       ELSE IF 2 * q[2] > d \/ (2 * q[2] = d /\ q[1] = 1) THEN 1
       ELSE -1

\* step // updateWavelength, with updateWavelength = steps / updates
\* (steps, updates > 0): the floor of the exact quotient, one less where the
\* exact quotient is a whole number and the float wavelength was rounded up.
FloorDivWavelength(step, steps, updates) ==
    LET q == (step * updates) \div steps
    IN IF step > 0 /\ (step * updates) % steps = 0
          /\ FloatDivRounding(steps, updates) = 1
       THEN q - 1 ELSE q

\* Line 207: the step has crossed into a new update window.
CrossesUpdateBoundary(step, steps, updates) ==
    FloorDivWavelength(step, steps, updates)
        > FloorDivWavelength(step - 1, steps, updates)

(***************************************************************************)
(* The state.                                                              *)
(***************************************************************************)
VARIABLES
    heap,         \* the state objects: [live addresses -> value]
    state,        \* self.state: an address
    best_state,   \* self.best_state: an address, or None
    best_energy,  \* self.best_energy (None, as 0, while best_state is None)
    params,       \* self.params
    honest,       \* the problem: move() returns the true change of energy()
    pc,           \* "idle", or the position inside the running call
    outcome,      \* how the last call ended: "returned" or the exception
    retval,       \* what the last call returned: <<state, energy>>, or << >>
    arg,          \* the call in hand: "anneal", "anneal(None)", "auto"
    step, T, E, prevState, prevEnergy,      \* anneal's locals
    trials, accepts, improves, Tfactor,
    f,            \* anneal's local f is a file object (not None)
    fileOpen,     \* the trace file the call in hand has opened is open
    fileLines,    \* lines the call has written to it
    calls,        \* hook invocations in the call in hand
    hist,         \* <<energy, state value>> at the start of the run and after
                  \* each accepted move
    last,         \* the last loop step: the value move() left, its delta, the
                  \* temperature, the draw (if one was made) and the verdict
    prevRun,      \* the call before this one, if it was an anneal that returned
    asteps,       \* auto's argument steps
    phase,        \* auto: the search loop the probe in hand belongs to
    probes,       \* auto: calls of run() so far
    acceptance,   \* auto: accepted moves of the last probe (of asteps)
    improvement,  \* auto: improving moves of the last probe (of asteps)
    Tmax          \* auto's local Tmax

core == <<heap, state, best_state, best_energy, params>>
locals == <<step, T, E, prevState, prevEnergy, trials, accepts, improves,
            Tfactor, f>>
control == <<pc, outcome, retval, arg>>
file == <<fileOpen, fileLines>>
ghost == <<calls, hist, last, prevRun>>
autovars == <<asteps, phase, probes, acceptance, improvement, Tmax>>
vars == <<core, honest, control, locals, file, ghost, autovars>>

NoCalls == [energy |-> 0, move |-> 0, revert |-> 0, update |-> 0]
NoStep == [value |-> 0, dE |-> 0, T |-> 0, drawn |-> FALSE, r |-> 0,
           verdict |-> "none"]
NoRun == [ok |-> FALSE, energy |-> 0, value |-> 0]

(***************************************************************************)
(* The problem's hooks.                                                    *)
(***************************************************************************)
\* energy(): the energy of a state of value v.
Energy(v) == v * v

(***************************************************************************)
(* State objects.                                                          *)
(***************************************************************************)
Live(refs) == refs \ {None}

\* The address a new object gets.
NewAddr(live) == CHOOSE a \in Addr \ live : \A b \in Addr \ live : a <= b

\* The objects that self.state (st), prevState (ps) and self.best_state (bs)
\* reference in heap h, and nothing else, at addresses that depend only on
\* which of the three are one object: an object's address is its identity
\* and no more.
Collect(h, st, ps, bs) ==
    LET a2 == IF ps = None THEN None ELSE IF ps = st THEN 1 ELSE 2
        a3 == IF bs = None THEN None
              ELSE IF bs = st THEN 1
              ELSE IF bs = ps THEN a2
              ELSE IF a2 = 2 THEN 3 ELSE 2
    IN [state |-> 1, prevState |-> a2, best_state |-> a3,
        heap |-> [a \in Live({1, a2, a3}) |->
                    IF a = 1 THEN h[st] ELSE IF a = a2 THEN h[ps] ELSE h[bs]]]

\* A faulty copy_state: it hands back the object it was given, as a slice
\* or copy() that does not copy would.
copy_state_shared(strategy, h, s, live) ==
    IF strategy \in {"deepcopy", "slice", "method"}
    THEN [raised |-> FALSE, ref |-> s, heap |-> h]
    ELSE [raised |-> TRUE, ref |-> None, heap |-> h]

\* Annealer.copy_state: a new object equal to the one at s; an unknown
\* strategy raises RuntimeError.
copy_state(strategy, h, s, live) ==
    IF strategy \in {"deepcopy", "slice", "method"}
    THEN LET a == NewAddr(live)
         IN [raised |-> FALSE, ref |-> a,
             heap |-> [x \in DOMAIN h \cup {a} |-> IF x = a THEN h[s] ELSE h[x]]]
    ELSE [raised |-> TRUE, ref |-> None, heap |-> h]

(***************************************************************************)
(* Annealer.anneal, lines 143-173: the call up to the loop.                *)
(***************************************************************************)
\* A faulty line 155: a tmin of 0 passes.
TminInvalidBelowZero(tmin) == tmin < 0

\* Line 155.
TminInvalid(tmin) == tmin <= 0

\* Lines 163 and 178: the cooling schedule.
Temperature(tmax, tfactor, k, steps) ==
    (tmax * Exp((tfactor * k) \div steps)) \div Scale

\* math.exp(-dE / T) for dE > 0.
Probability(dE, temp) == ExpNeg((dE * Scale * Scale) \div temp)

\* A faulty line 185: a draw equal to the probability rejects too.
RejectsOnEqualDraw(dE, temp, r) == dE > 0 /\ Probability(dE, temp) <= r

\* Line 185: the Metropolis test; r is random.random() in Scale units.
Rejects(dE, temp, r) == dE > 0 /\ Probability(dE, temp) < r

\* Faulty lines 203: the comparison turned round, and a tie taken as new.
IsNewBestWhenAbove(e, best) == e > best
IsNewBestOrTie(e, best) == e <= best

\* Line 203.
IsNewBest(e, best) == e < best

\* Line 171 / 206: whether update() is called at the start / inside the loop.
UpdatesAtStart(updates) == updates > 0
\* A faulty line 206: the loop updates with updates = 1 too.
UpdatesInLoopFromOne(updates) == updates > 0
UpdatesInLoop(updates) == updates > 1

\* The draws of random.random() worth telling apart for a probability p.
Draws(p) == {0, p, p + 1, Scale - 1} \cap (0 .. Scale - 1)

ResetLocals ==
    /\ step' = 0 /\ T' = 0 /\ E' = 0 /\ prevState' = None /\ prevEnergy' = 0
    /\ trials' = 0 /\ accepts' = 0 /\ improves' = 0 /\ Tfactor' = 0
    /\ f' = FALSE

\* What the previous call leaves to this one: the best energy and state of
\* an anneal that returned, for a problem whose move() tells the truth.
Previous ==
    IF arg = "anneal" /\ outcome = "returned" /\ honest
    THEN [ok |-> TRUE, energy |-> best_energy, value |-> heap[best_state]]
    ELSE NoRun

\* Lines 143-152 with params given: store them, open the trace file.
Enter(p) ==
    /\ pc = "idle"
    /\ params' = p
    /\ arg' = "anneal"
    /\ retval' = << >>
    /\ fileOpen' = (p.output_file # "")
    /\ fileLines' = IF p.output_file # "" THEN 1 ELSE 0

\* An exception leaves the call: the frame's locals are gone, the file is
\* as it was.
Raise(exc) ==
    /\ pc' = "idle"
    /\ outcome' = exc
    /\ ResetLocals
    /\ hist' = << >>
    /\ last' = NoStep
    /\ prevRun' = NoRun

\* Line 145 with params = None: None has no attribute output_file.
AnnealNoParams ==
    /\ pc = "idle"
    /\ arg' = "anneal(None)"
    /\ retval' = << >>
    /\ Raise("AttributeError")
    /\ calls' = NoCalls
    /\ fileOpen' = FALSE /\ fileLines' = 0
    /\ UNCHANGED <<core, honest>>
    /\ UNCHANGED autovars

\* Lines 155-159.
AnnealTminError(p) ==
    /\ Enter(p)
    /\ TminInvalid(p.tmin)
    /\ Raise("Exception")
    /\ calls' = NoCalls
    /\ UNCHANGED <<heap, state, best_state, best_energy, honest>>
    /\ UNCHANGED autovars

\* Line 160: math.log raises.
AnnealLogError(p) ==
    /\ Enter(p)
    /\ ~TminInvalid(p.tmin)
    /\ LogRaises(p.tmax, p.tmin) # "none"
    /\ Raise(LogRaises(p.tmax, p.tmin))
    /\ calls' = NoCalls
    /\ UNCHANGED <<heap, state, best_state, best_energy, honest>>
    /\ UNCHANGED autovars

\* Line 164: energy() raises.
AnnealEnergyRaises(p) ==
    /\ Enter(p)
    /\ ~TminInvalid(p.tmin)
    /\ LogRaises(p.tmax, p.tmin) = "none"
    /\ Raise("HookError")
    /\ calls' = [NoCalls EXCEPT !.energy = 1]
    /\ UNCHANGED <<heap, state, best_state, best_energy, honest>>
    /\ UNCHANGED autovars

\* Line 166: copy_state raises.
AnnealCopyError(p) ==
    /\ Enter(p)
    /\ ~TminInvalid(p.tmin)
    /\ LogRaises(p.tmax, p.tmin) = "none"
    /\ copy_state(p.copy_strategy, heap, state, Live({state, best_state})).raised
    /\ Raise("RuntimeError")
    /\ calls' = [NoCalls EXCEPT !.energy = 1]
    /\ UNCHANGED <<heap, state, best_state, best_energy, honest>>
    /\ UNCHANGED autovars

\* Lines 143-174: the run starts.
AnnealBegin(p) ==
    /\ Enter(p)
    /\ ~TminInvalid(p.tmin)
    /\ LogRaises(p.tmax, p.tmin) = "none"
    /\ LET e0 == Energy(heap[state])
           c1 == copy_state(p.copy_strategy, heap, state,
                            Live({state, best_state}))
           c2 == copy_state(p.copy_strategy, c1.heap, state,
                            Live({state, c1.ref}))
           n  == Collect(c2.heap, state, c1.ref, c2.ref)
       IN /\ ~c1.raised
          /\ Tfactor' = -Log(p.tmax, p.tmin)
          /\ T' = p.tmax
          /\ E' = e0
          /\ state' = n.state
          /\ prevState' = n.prevState
          /\ prevEnergy' = e0
          /\ best_state' = n.best_state
          /\ best_energy' = e0
          /\ heap' = n.heap
          /\ hist' = << <<e0, heap[state]>> >>
    /\ step' = 0 /\ trials' = 0 /\ accepts' = 0 /\ improves' = 0
    /\ f' = (p.output_file # "")
    /\ calls' = [NoCalls EXCEPT !.energy = 1,
                                !.update = IF UpdatesAtStart(p.updates) THEN 1 ELSE 0]
    /\ last' = NoStep
    /\ prevRun' = Previous
    /\ pc' = "anneal"
    /\ outcome' = "none"
    /\ UNCHANGED honest
    /\ UNCHANGED autovars

(***************************************************************************)
(* Annealer.anneal, lines 176-209: one pass of the loop.                   *)
(***************************************************************************)
\* move() on a state of value v: the deltas it may return for new value nv.
MoveDeltas(v, nv) == IF honest THEN {Energy(nv) - Energy(v)} ELSE Deltas

\* Lines 206-209: update() is called at this step.
UpdatesAt(k) ==
    /\ UpdatesInLoop(params.updates)
    /\ CrossesUpdateBoundary(k, params.steps, params.updates)

\* The temperature of the step about to run (line 178).
NextTemperature == Temperature(params.tmax, Tfactor, step + 1, params.steps)

\* The draws of line 185 for a move of delta dE: none unless dE > 0.
StepDraws(dE) ==
    IF dE > 0 THEN Draws(Probability(dE, NextTemperature)) ELSE {0}

\* One pass in which move() changes the state to nv and returns dE, and r
\* is the draw of line 185.
StepBody(nv, dE, r) ==
    /\ LET k    == step + 1
           temp == Temperature(params.tmax, Tfactor, k, params.steps)
           h1   == [heap EXCEPT ![state] = nv]
           e1   == E + dE
           live == Live({state, prevState, best_state})
           rej  == Rejects(dE, temp, r)
           acc1 == IF rej THEN accepts ELSE accepts + 1
           imp1 == IF ~rej /\ dE < 0 THEN improves + 1 ELSE improves
       IN /\ step' = k
          /\ T' = temp
          /\ last' = [value |-> nv, dE |-> dE, T |-> temp, drawn |-> dE > 0,
                      r |-> r, verdict |-> IF rej THEN "REJ" ELSE "ACC"]
          /\ IF rej
             THEN \* lines 186-192
                  LET c == copy_state(params.copy_strategy, h1, prevState, live)
                      n == Collect(c.heap, c.ref, prevState, best_state)
                  IN /\ state' = n.state
                     /\ prevState' = n.prevState
                     /\ best_state' = n.best_state
                     /\ heap' = n.heap
                     /\ E' = prevEnergy
                     /\ UNCHANGED <<prevEnergy, best_energy, hist>>
             ELSE \* lines 194-205
                  LET c1 == copy_state(params.copy_strategy, h1, state, live)
                      nb == IsNewBest(e1, best_energy)
                      c2 == copy_state(params.copy_strategy, c1.heap, state,
                                       Live({state, c1.ref, best_state}))
                      n  == IF nb THEN Collect(c2.heap, state, c1.ref, c2.ref)
                            ELSE Collect(c1.heap, state, c1.ref, best_state)
                  IN /\ state' = n.state
                     /\ prevState' = n.prevState
                     /\ prevEnergy' = e1
                     /\ best_state' = n.best_state
                     /\ best_energy' = IF nb THEN e1 ELSE best_energy
                     /\ heap' = n.heap
                     /\ E' = e1
                     /\ hist' = Append(hist, <<e1, nv>>)
          /\ IF UpdatesAt(k)
             THEN trials' = 0 /\ accepts' = 0 /\ improves' = 0
             ELSE trials' = trials + 1 /\ accepts' = acc1 /\ improves' = imp1
          /\ calls' = [calls EXCEPT
                         !.move = @ + 1,
                         !.revert = IF rej THEN @ + 1 ELSE @,
                         !.update = IF UpdatesAt(k) THEN @ + 1 ELSE @]
    /\ fileLines' = IF f THEN fileLines + 1 ELSE fileLines
    /\ UNCHANGED <<params, honest, control, Tfactor, f, fileOpen, prevRun,
                   autovars>>

AnnealStep ==
    /\ pc = "anneal"
    /\ step < params.steps
    /\ \E nv \in Vals : \E dE \in MoveDeltas(heap[state], nv) :
          \E r \in StepDraws(dE) : StepBody(nv, dE, r)

\* Line 179: move() raises, having left the state at some value.
AnnealMoveRaises ==
    /\ pc = "anneal"
    /\ step < params.steps
    /\ \E nv \in Vals :
          LET n == Collect([heap EXCEPT ![state] = nv], state, None, best_state)
          IN /\ state' = n.state
             /\ best_state' = n.best_state
             /\ heap' = n.heap
    /\ calls' = [calls EXCEPT !.move = @ + 1]
    /\ Raise("HookError")
    /\ UNCHANGED <<best_energy, params, honest, retval, arg, file>>
    /\ UNCHANGED autovars

\* Line 191: revert() raises (or the problem defines none) on a rejected move.
AnnealRevertRaises ==
    /\ pc = "anneal"
    /\ step < params.steps
    /\ \E nv \in Vals : \E dE \in MoveDeltas(heap[state], nv) :
          \E r \in StepDraws(dE) :
            LET h1 == [heap EXCEPT ![state] = nv]
                c  == copy_state(params.copy_strategy, h1, prevState,
                                 Live({state, prevState, best_state}))
                n  == Collect(c.heap, c.ref, None, best_state)
            IN /\ Rejects(dE, NextTemperature, r)
               /\ state' = n.state
               /\ best_state' = n.best_state
               /\ heap' = n.heap
    /\ calls' = [calls EXCEPT !.move = @ + 1, !.revert = @ + 1]
    /\ fileLines' = IF f THEN fileLines + 1 ELSE fileLines
    /\ Raise("HookError")
    /\ UNCHANGED <<best_energy, params, honest, retval, arg, fileOpen>>
    /\ UNCHANGED autovars

(***************************************************************************)
(* Annealer.anneal, lines 211-214: the return.  Nothing closes f: once the *)
(* frame is gone the file object is unreferenced, and whether it has been  *)
(* finalized (closed) by then is up to the interpreter.                    *)
(***************************************************************************)
\* A faulty line 211: the working state is left where the loop ended.
WorkingState == state

\* Line 211: the snapshot copied into self.state.
SnapshotToRestore == best_state

AnnealFinish(finalized) ==
    /\ pc = "anneal"
    /\ step >= params.steps
    /\ finalized \in (IF fileOpen THEN BOOLEAN ELSE {FALSE})
    /\ LET c == copy_state(params.copy_strategy, heap, SnapshotToRestore,
                           Live({state, prevState, best_state}))
           n == Collect(c.heap, c.ref, None, best_state)
       IN /\ state' = n.state
          /\ best_state' = n.best_state
          /\ heap' = n.heap
          /\ retval' = <<n.best_state, best_energy>>
    /\ outcome' = "returned"
    /\ pc' = "idle"
    /\ ResetLocals
    /\ fileOpen' = (fileOpen /\ ~finalized)
    /\ last' = NoStep
    /\ UNCHANGED <<best_energy, params, honest, arg, fileLines, calls, hist,
                   prevRun>>
    /\ UNCHANGED autovars

(***************************************************************************)
(* round_figures, lines 29-31, on a positive fixed-point number.           *)
(***************************************************************************)
RECURSIVE Pow10(_)
Pow10(k) == IF k <= 0 THEN 1 ELSE 10 * Pow10(k - 1)

RECURSIVE CeilLog10Up(_, _)
CeilLog10Up(v, c) == IF v <= Scale * Pow10(c) THEN c ELSE CeilLog10Up(v, c + 1)

RECURSIVE CeilLog10Down(_, _)
CeilLog10Down(v, k) ==
    IF v * Pow10(k + 1) <= Scale THEN CeilLog10Down(v, k + 1) ELSE k

\* math.ceil(math.log10(v / Scale)) for v > 0.
CeilLog10(v) ==
    IF v > Scale THEN CeilLog10Up(v, 1) ELSE -CeilLog10Down(v, 0)

\* The whole number nearest n / d, halves to the even one (Python's round).
RoundHalfEven(n, d) ==
    LET q == n \div d
        r == n % d
    IN IF 2 * r > d \/ (2 * r = d /\ q % 2 = 1) THEN q + 1 ELSE q

\* round(v / Scale, digits), in Scale units.
Round(v, digits) ==
    IF digits >= 0
    THEN (RoundHalfEven(v * Pow10(digits), Scale) * Scale) \div Pow10(digits)
    ELSE RoundHalfEven(v, Scale * Pow10(-digits)) * Scale * Pow10(-digits)

\* round_figures(v / Scale, n) for v > 0, in Scale units.
round_figures(v, n) == Round(v, n - CeilLog10(v))

(***************************************************************************)
(* Annealer.auto, lines 216-288.                                           *)
(***************************************************************************)
AutoStepChoices == 1 .. MaxAutoSteps

\* int(60.0 * minutes * step / elapsed) of line 285, which the wall clock
\* decides.
DurationChoices == {0, 1200}

\* Lines 263 and 268: the probe's rate of acceptance, accepts / steps,
\* against 0.98.
Above98(acc, n) == 100 * acc > 98 * n
Below98(acc, n) == 100 * acc < 98 * n

\* Lines 263-281: the loop that runs the next probe, after a probe of
\* loop ph with acc accepted and imp improving moves of n; "done" once
\* none does.
NextPhase(ph, acc, imp, n) ==
    IF ph \in {"first", "cool"} /\ Above98(acc, n) THEN "cool"
    ELSE IF ph \in {"first", "cool", "heat"} /\ Below98(acc, n) THEN "heat"
    ELSE IF imp > 0 THEN "tmin"
    ELSE "done"

\* Lines 264, 269, 277: the temperature of the next probe.
NextProbeTemperature(ph, temp) ==
    IF ph = "heat" THEN round_figures(RoundHalfEven(3 * temp, 2), 2)
    ELSE round_figures(RoundHalfEven(2 * temp, 3), 2)

ResetAuto ==
    /\ asteps' = 0 /\ phase' = "none" /\ probes' = 0
    /\ acceptance' = 0 /\ improvement' = 0 /\ Tmax' = 0

AutoRaise(exc) ==
    /\ Raise(exc)
    /\ ResetAuto

\* Lines 226-229: run(T, steps) starts on heap h, in loop ph at temperature
\* temp.
StartRun(h, temp, ph) ==
    LET c == copy_state(params.copy_strategy, h, state,
                        Live({state, best_state}))
        n == Collect(c.heap, state, c.ref, best_state)
    IN /\ state' = n.state
       /\ prevState' = n.prevState
       /\ best_state' = n.best_state
       /\ heap' = n.heap
       /\ T' = temp
       /\ E' = Energy(h[state])
       /\ prevEnergy' = Energy(h[state])
       /\ accepts' = 0 /\ improves' = 0 /\ trials' = 0
       /\ phase' = ph
       /\ probes' = probes + 1
       /\ pc' = "auto_run"

\* Lines 246-253.
AutoBegin(n) ==
    /\ pc = "idle"
    /\ arg' = "auto"
    /\ retval' = << >>
    /\ outcome' = "none"
    /\ asteps' = n
    /\ step' = 0
    /\ T' = 0
    /\ E' = Energy(heap[state])
    /\ calls' = [NoCalls EXCEPT !.energy = 1, !.update = 1]
    /\ pc' = "auto_seed"
    /\ phase' = "seed"
    /\ fileOpen' = FALSE /\ fileLines' = 0
    /\ hist' = << >> /\ last' = NoStep /\ prevRun' = NoRun
    /\ UNCHANGED <<core, honest, prevState, prevEnergy, trials, accepts,
                   improves, Tfactor, f, probes, acceptance, improvement,
                   Tmax>>

\* Lines 254-260: one pass of the seed loop; when the energy has changed,
\* the first probe starts.
AutoSeed ==
    /\ pc = "auto_seed"
    /\ step < MaxSeedMoves
    /\ \E nv \in Vals :
          LET h1   == [heap EXCEPT ![state] = nv]
              temp == Abs(Energy(nv) - E) * Scale
          IN IF temp = 0
             THEN /\ heap' = h1
                  /\ T' = temp
                  /\ calls' = [calls EXCEPT !.move = @ + 1, !.energy = @ + 1]
                  /\ UNCHANGED <<state, best_state, E, prevState, prevEnergy,
                                 trials, accepts, improves, pc, phase, probes>>
             ELSE /\ StartRun(h1, temp, "first")
                  /\ calls' = [calls EXCEPT !.move = @ + 1, !.energy = @ + 2]
    /\ step' = step + 1
    /\ UNCHANGED <<best_energy, params, honest, outcome, retval, arg, Tfactor,
                   f, file, hist, last, prevRun, asteps, acceptance,
                   improvement, Tmax>>

\* Lines 230-243: one move of a probe.
AutoRunStep ==
    /\ pc = "auto_run"
    /\ trials < asteps
    /\ \E nv \in Vals :
          LET h1 == [heap EXCEPT ![state] = nv]
              e1 == Energy(nv)
              dE == e1 - prevEnergy
          IN \E r \in (IF dE > 0 THEN Draws(Probability(dE, T)) ELSE {0}) :
                IF Rejects(dE, T, r)
                THEN LET c == copy_state(params.copy_strategy, h1, prevState,
                                         Live({state, prevState, best_state}))
                         n == Collect(c.heap, c.ref, prevState, best_state)
                     IN /\ state' = n.state
                        /\ prevState' = n.prevState
                        /\ best_state' = n.best_state
                        /\ heap' = n.heap
                        /\ E' = prevEnergy
                        /\ calls' = [calls EXCEPT !.move = @ + 1,
                                       !.energy = @ + 1, !.revert = @ + 1]
                        /\ UNCHANGED <<prevEnergy, accepts, improves>>
                ELSE LET c == copy_state(params.copy_strategy, h1, state,
                                         Live({state, prevState, best_state}))
                         n == Collect(c.heap, state, c.ref, best_state)
                     IN /\ state' = n.state
                        /\ prevState' = n.prevState
                        /\ best_state' = n.best_state
                        /\ heap' = n.heap
                        /\ E' = e1
                        /\ prevEnergy' = e1
                        /\ accepts' = accepts + 1
                        /\ improves' = IF dE < 0 THEN improves + 1 ELSE improves
                        /\ calls' = [calls EXCEPT !.move = @ + 1,
                                                  !.energy = @ + 1]
    /\ trials' = trials + 1
    /\ UNCHANGED <<best_energy, params, honest, control, step, T, Tfactor, f,
                   file, hist, last, prevRun, autovars>>

\* Lines 244 and 260-281: a probe returns and one of the search loops runs
\* the next one.
AutoNextProbe ==
    /\ pc = "auto_run"
    /\ trials = asteps
    /\ probes < MaxProbes
    /\ LET ph == NextPhase(phase, accepts, improves, asteps)
       IN /\ ph # "done"
          /\ StartRun(heap, NextProbeTemperature(ph, T), ph)
          /\ Tmax' = IF ph = "tmin" /\ phase # "tmin" THEN T ELSE Tmax
    /\ acceptance' = accepts
    /\ improvement' = improves
    /\ step' = step + asteps
    /\ calls' = [calls EXCEPT !.energy = @ + 1,
                   !.update = IF phase = "first" THEN @ ELSE @ + 1]
    /\ UNCHANGED <<best_energy, params, honest, outcome, retval, arg, Tfactor,
                   f, file, hist, last, prevRun, asteps>>

\* Line 285: the duration is 0 and round_figures takes log10(0).
AutoDurationError ==
    /\ pc = "auto_run"
    /\ trials = asteps
    /\ NextPhase(phase, accepts, improves, asteps) = "done"
    /\ 0 \in DurationChoices
    /\ calls' = [calls EXCEPT !.update = IF phase = "first" THEN @ ELSE @ + 1]
    /\ AutoRaise("ValueError")
    /\ UNCHANGED <<core, honest, retval, arg, file>>

\* Line 288: the record to return names self.updates, an attribute the core
\* does not have (the update count is self.params.updates).
AutoReturn ==
    /\ pc = "auto_run"
    /\ trials = asteps
    /\ NextPhase(phase, accepts, improves, asteps) = "done"
    /\ \E n \in DurationChoices : n > 0 /\ round_figures(n * Scale, 2) > 0
    /\ calls' = [calls EXCEPT !.update = IF phase = "first" THEN @ ELSE @ + 1]
    /\ AutoRaise("AttributeError")
    /\ UNCHANGED <<core, honest, retval, arg, file>>

\* move() or energy() raises inside auto, having left the state at some
\* value.
AutoHookRaises ==
    /\ pc \in {"auto_seed", "auto_run"}
    /\ pc = "auto_run" => trials < asteps
    /\ \E nv \in Vals :
          LET n == Collect([heap EXCEPT ![state] = nv], state, None, best_state)
          IN /\ state' = n.state
             /\ best_state' = n.best_state
             /\ heap' = n.heap
    /\ calls' = [calls EXCEPT !.move = @ + 1]
    /\ AutoRaise("HookError")
    /\ UNCHANGED <<best_energy, params, honest, retval, arg, file>>

(***************************************************************************)
(* The specification.                                                      *)
(***************************************************************************)
Init ==
    /\ \E v \in Vals : heap = [a \in {1} |-> v]
    /\ state = 1
    /\ best_state = None
    /\ best_energy = None
    /\ params = DefaultParams
    /\ honest \in BOOLEAN
    /\ pc = "idle" /\ outcome = "none" /\ retval = << >> /\ arg = "none"
    /\ step = 0 /\ T = 0 /\ E = 0 /\ prevState = None /\ prevEnergy = 0
    /\ trials = 0 /\ accepts = 0 /\ improves = 0 /\ Tfactor = 0 /\ f = FALSE
    /\ fileOpen = FALSE /\ fileLines = 0
    /\ calls = NoCalls /\ hist = << >> /\ last = NoStep /\ prevRun = NoRun
    /\ asteps = 0 /\ phase = "none" /\ probes = 0
    /\ acceptance = 0 /\ improvement = 0 /\ Tmax = 0

Next ==
    \/ AnnealNoParams
    \/ \E p \in ParamChoices : AnnealTminError(p)
    \/ \E p \in ParamChoices : AnnealLogError(p)
    \/ \E p \in ParamChoices : AnnealEnergyRaises(p)
    \/ \E p \in ParamChoices : AnnealCopyError(p)
    \/ \E p \in ParamChoices : AnnealBegin(p)
    \/ AnnealStep
    \/ AnnealMoveRaises
    \/ AnnealRevertRaises
    \/ \E finalized \in BOOLEAN : AnnealFinish(finalized)

Spec == Init /\ [][Next]_vars

\* The estimator on a fresh core.
AutoNext ==
    \/ \E n \in AutoStepChoices : AutoBegin(n)
    \/ AutoSeed
    \/ AutoRunStep
    \/ AutoNextProbe
    \/ AutoReturn
    \/ AutoDurationError
    \/ AutoHookRaises

AutoSpec == Init /\ [][AutoNext]_vars

(***************************************************************************)
(* The claims.                                                             *)
(***************************************************************************)
\* An anneal call has passed line 174: it is in its loop or has returned.
RunBegan == arg = "anneal" /\ (pc = "anneal" \/ outcome = "returned")
Returned == arg = "anneal" /\ pc = "idle" /\ outcome = "returned"

\* The energy energy() gave at the start of the run.
InitialEnergy == hist[1][1]

\* The least energy in h, and the first place in h that has it.
MinEnergy(h) ==
    CHOOSE e \in {h[i][1] : i \in DOMAIN h} :
        \A i \in DOMAIN h : e <= h[i][1]
EarliestMin(h) ==
    CHOOSE i \in DOMAIN h :
        /\ h[i][1] = MinEnergy(h)
        /\ \A j \in DOMAIN h : h[j][1] = MinEnergy(h) => i <= j

\* A pass of anneal's loop.
LoopStep == pc = "anneal" /\ pc' = "anneal" /\ step' = step + 1

\* C1: in a run best_energy is never above the energy at the start of the
\* run, and no pass of the loop, nor the return, raises it.
C1_BestNeverWorsens ==
    /\ [](RunBegan => best_energy <= InitialEnergy)
    /\ [][pc = "anneal" => best_energy' <= best_energy]_vars

\* A run that has returned a best energy below the one it started from,
\* after accepting a move uphill of it.
C1_Witness ==
    /\ Returned
    /\ best_energy < InitialEnergy
    /\ hist[Len(hist)][1] > best_energy

\* C2: once an anneal call given a trace output path is over, however it
\* ended, the trace file it opened is closed.
C2_TraceFileClosed ==
    (arg = "anneal" /\ pc = "idle" /\ params.output_file # "") => ~fileOpen

\* exp(-dE / T) of the last loop step.
LastProbability == ExpNeg((last.dE * Scale * Scale) \div last.T)

\* C3 as stated: a move is rejected exactly when dE > 0 and the draw is not
\* less than exp(-dE / T).
C3_RejectsWhenDrawNotLess ==
    last.verdict # "none" =>
        (last.verdict = "REJ" <=> (last.dE > 0 /\ last.r >= LastProbability))

\* C3, amended: a move is rejected exactly when dE > 0 and exp(-dE / T) is
\* less than the draw; so a move with dE <= 0 is accepted without a draw, a
\* draw of 0 accepts, and a draw just under 1 rejects when exp(-dE / T) is
\* below the draw.
C3_RejectsWhenProbabilityLess ==
    last.verdict # "none" =>
        /\ last.verdict = "REJ" <=> (last.dE > 0 /\ LastProbability < last.r)
        /\ last.dE <= 0 => (last.verdict = "ACC" /\ ~last.drawn)
        /\ (last.dE > 0 /\ last.r = 0) => last.verdict = "ACC"
        /\ (last.dE > 0 /\ last.r = Scale - 1 /\ LastProbability < Scale - 1)
              => last.verdict = "REJ"

\* An uphill move accepted on a draw equal to exp(-dE / T).
C3_Witness ==
    /\ last.verdict = "ACC"
    /\ last.dE > 0
    /\ last.r = LastProbability
    /\ last.r > 0

\* A call of anneal with parameters whose tmin is not above 0.
CallWithBadTmin ==
    /\ pc = "idle"
    /\ arg' = "anneal"
    /\ params'.tmin <= 0
    /\ outcome' # outcome \/ params' # params \/ calls' # calls

\* C4: anneal with tmin <= 0 ends in the configuration error with no hook
\* and no update() called, and state, best_state and best_energy as they
\* were.
C4_BadTminFailsFirst ==
    [][CallWithBadTmin =>
          /\ pc' = "idle"
          /\ outcome' = "Exception"
          /\ calls' = NoCalls
          /\ UNCHANGED <<heap, state, best_state, best_energy>>]_vars

\* The configuration error, on a core that holds the best of an earlier
\* run.
C4_Witness ==
    /\ arg = "anneal"
    /\ outcome = "Exception"
    /\ params.tmin <= 0
    /\ best_state # None
    /\ calls = NoCalls

C6_ReturnsEarliestBest ==
    Returned =>
        /\ retval = <<best_state, best_energy>>
        /\ best_energy = MinEnergy(hist)
        /\ heap[best_state] = hist[EarliestMin(hist)][2]
        /\ heap[state] = heap[best_state]

\* A return where the least energy was reached first by the first accepted
\* move and again by the second, in another state.
C6_Witness ==
    /\ Returned
    /\ Len(hist) = 3
    /\ EarliestMin(hist) = 2
    /\ hist[3][1] = hist[2][1]
    /\ hist[3][2] # hist[2][2]

C9_ResumesFromBest ==
    (RunBegan /\ prevRun.ok) =>
        /\ hist[1][2] = prevRun.value
        /\ InitialEnergy = prevRun.energy
        /\ best_energy <= prevRun.energy

\* A second run that returned a better energy than the first.
C9_Witness ==
    /\ Returned
    /\ prevRun.ok
    /\ best_energy < prevRun.energy

\* C10: anneal called without params does not fail before the run starts.
C10_OmittedParamsRuns ==
    arg = "anneal(None)" =>
        (pc = "anneal" \/ outcome \in {"returned", "HookError"})

\* C7: auto, on a problem whose hooks do not raise and with a duration
\* above 0, returns its record: it does not end in an error.
C7_AutoReturnsRecord ==
    (arg = "auto" /\ pc = "idle" /\ outcome \notin {"HookError", "ValueError"})
        => outcome = "returned"

=============================================================================
